---- MODULE Spec2Model ----
(***************************************************************************)
(* Session supervisor of web/server.js: the map `bots` of running bots,    *)
(* startBot / stopBot, the five event handlers startBot registers on each  *)
(* bot, and the /api/submit-guard route.                                   *)
(*                                                                         *)
(* Node runs every handler to completion on one thread, so each handler is *)
(* one atomic action.  What is asynchronous in the code (the promise of    *)
(* fs.unlink, of fs.mkdir/appendFile) is a pending task settled by a later *)
(* action.  A bot keeps its handlers for as long as it exists: server.js   *)
(* never removes a listener, so every bot built so far may deliver any     *)
(* event at any time, also after stopBot removed it from `bots`.           *)
(* startBot and stopBot are modelled as the functions they are: callable   *)
(* in every state, although /api/start and /api/stop look at `bots` first. *)
(*                                                                         *)
(* `ran` and `last` record the handler that ran last and what it did       *)
(* besides assigning variables (log lines, broadcasts, calls on the bot    *)
(* and on fs, the HTTP answer), in the order of the statements.            *)
(*                                                                         *)
(* Spec has the handlers above.  SpecAll adds the starts in which the bot  *)
(* fails (buildBot raises, or doLogin delivers the end of the login before *)
(* it returns) and the delete-account route; there a handler's writeLog is *)
(* an effect in `last`.  SpecLog is writeLog by itself: the appends to the *)
(* log file in flight and the lines broadcast to the observers.            *)
(*                                                                         *)
(* The bot objects come from ../src/hourBooster (buildBot), which is not   *)
(* part of the sources at hand: the fields server.js reads from a bot are  *)
(* modelled from the specification.                                        *)
(***************************************************************************)
EXTENDS Integers, Sequences, FiniteSets, Bags, TLC

\* ------------------------------------------------------------------ bounds
\* Bot objects buildBot may construct in one run (startBot is the only caller).
\* SpecWide allows one more, for the runs that need three bots of one account.
MaxClients == 2
\* Promises of fs.unlink, fs.mkdir and saveConfig outstanding at once.
MaxPendingIO == 1
\* Cap of the count of automated replies sent by one bot to one peer.
MaxReplies == 2
\* writeLog calls in one run of SpecLog.
MaxLogLines == 4

Users == {"alice", "bob"}
Peers == {"p1", "p2"}
Clients == 1..(MaxClients + 1)
\* bots[username] === undefined
None == 0

\* --------------------------------------------------------------- inputs
\* The error objects a bot emits, each message as its list of words.
\* steam-user builds them as new Error(EResult[code]) with .eresult = code,
\* so the message is the name of the result code; a transport error carries
\* no eresult.
Errors ==
    { [message |-> <<"LoggedInElsewhere">>, eresult |-> "LoggedInElsewhere"],
      [message |-> <<"InvalidPassword">>, eresult |-> "InvalidPassword"],
      [message |-> <<"connect", "ETIMEDOUT">>, eresult |-> "undefined"] }

\* accounts.json as loaded into configsArray: one entry per account.
configsArray ==
    [u \in Users |->
        IF u = "alice"
        THEN [username |-> u, sharedSecret |-> "s3cr3t", replyMessage |-> "hi",
              receiveMessages |-> TRUE, saveMessages |-> FALSE]
        ELSE [username |-> u, sharedSecret |-> "", replyMessage |-> "",
              receiveMessages |-> FALSE, saveMessages |-> TRUE]]

\* The accounts for which a login key is stored on disk: their bots carry
\* its path in loginKeyPath.
storedLoginKey == [u \in Users |-> u = "bob"]

VARIABLES
    bots,          \* let bots = {}: username -> bot (None: no entry)
    nextClient,    \* number of bot objects built so far
    heap,          \* the bot objects: fields server.js reads and writes
    loggedIn,      \* ghost: doLogin was invoked and the bot has not terminated
    chatSent,      \* ghost: bot.chatMessage calls per bot and peer
    pendingIO,     \* bag of the promises not yet settled: <<kind, account>>
    ran,           \* the handler that ran last: <<name, bot or account, input>>
    last,          \* the effects of that handler, in code order
    configured,    \* the usernames that have an entry in configsArray
    logCount,      \* number of writeLog calls so far
    logPending,    \* writeLog calls whose fs.appendFile has not settled
    logStream      \* the lines sent with io.emit('log'), in order of sending

logVars == <<logCount, logPending, logStream>>
vars == <<bots, nextClient, heap, loggedIn, chatSent, pendingIO, ran, last,
          configured, logVars>>

IOKinds == {"unlink", "save"}
\* The promises of one kind outstanding for one account.
Pending(kind, username) == CopiesIn(<<kind, username>>, pendingIO)
Promise(kind, username) == SetToBag({<<kind, username>>})

\* ------------------------------------------------------------- effects
\* What a handler does besides updating the variables, as triples of strings.
Log(username, text) == <<"writeLog", username, text>>
Emit(event, payload) == <<"io.emit", event, payload>>
Call(fn, arg) == <<"call", fn, arg>>
MapSet(username) == <<"bots", "set", username>>
MapDelete(username) == <<"bots", "delete", username>>
Http(status) == <<"res.status", status, "">>
Throw(what) == <<"throw", what, "">>

StatusUpdate == Emit("statusUpdate", "")

Has(effects, e) == \E i \in DOMAIN effects : effects[i] = e
Count(effects, e) == Cardinality({i \in DOMAIN effects : effects[i] = e})
CountKind(effects, kind) ==
    Cardinality({i \in DOMAIN effects : effects[i][1] = kind})
Before(effects, a, b) ==
    \E i, j \in DOMAIN effects : i < j /\ effects[i] = a /\ effects[j] = b

\* String.prototype.includes on a message held as its list of words.
Includes(message, marker) == \E i \in DOMAIN message : message[i] = marker

\* `${err}`: "Error: " and the message.
RECURSIVE Words(_)
Words(message) ==
    IF message = <<>> THEN ""
    ELSE IF Len(message) = 1 THEN Head(message)
    ELSE Head(message) \o " " \o Words(Tail(message))
ErrText(err) == "Error: " \o Words(err.message)

\* The bot object buildBot(config) returns, as far as server.js uses it.
NoBot == [username |-> "", sharedSecret |-> "", autoMessage |-> "",
          receiveMessages |-> FALSE, saveMessages |-> FALSE,
          loginKeyPath |-> FALSE, messageReceived |-> {},
          waitingForGuard |-> FALSE]

buildBot(config) ==
    [username |-> config.username, sharedSecret |-> config.sharedSecret,
     autoMessage |-> config.replyMessage,
     receiveMessages |-> config.receiveMessages,
     saveMessages |-> config.saveMessages,
     loginKeyPath |-> storedLoginKey[config.username],
     messageReceived |-> {}, waitingForGuard |-> FALSE]

Built == 1..nextClient

Init ==
    /\ bots = [u \in Users |-> None]
    /\ nextClient = 0
    /\ heap = [c \in Clients |-> NoBot]
    /\ loggedIn = [c \in Clients |-> FALSE]
    /\ chatSent = [c \in Clients |-> [p \in Peers |-> 0]]
    /\ pendingIO = EmptyBag
    /\ ran = <<"", "", "">>
    /\ last = <<>>
    /\ configured = Users
    /\ logCount = 0
    /\ logPending = {}
    /\ logStream = <<>>

\* startBot without the guard of line 83: it builds a bot and overwrites the entry.
startBot_NoCheck(u) ==
    LET config == configsArray[u] IN
    /\ ran' = <<"startBot", u, "">>
    /\ nextClient + 1 \in Clients
    /\ LET bot == nextClient + 1 IN
       /\ nextClient' = bot
       /\ heap' = [heap EXCEPT ![bot] = buildBot(config)]
       /\ loggedIn' = [loggedIn EXCEPT ![bot] = TRUE]
       /\ bots' = [bots EXCEPT ![config.username] = bot]
       /\ last' = <<Log(u, "Starting bot..."), Call("buildBot", u),
                    Call("doLogin", u), MapSet(u), StatusUpdate>>
    /\ UNCHANGED <<configured, logVars, chatSent, pendingIO>>

\* The peers the account's earlier bots have replied to.
SeenBefore(u) ==
    UNION {heap[c].messageReceived : c \in {d \in Built : heap[d].username = u}}

\* startBot with the reply tracking kept per account instead of per bot.
startBot_KeepsSeen(u) ==
    LET config == configsArray[u] IN
    /\ ran' = <<"startBot", u, "">>
    /\ IF bots[config.username] # None
       THEN /\ last' = <<Log(u, "Bot is already running.")>>
            /\ UNCHANGED <<configured, logVars, bots, nextClient, heap, loggedIn, chatSent,
                           pendingIO>>
       ELSE /\ nextClient + 1 \in Clients
            /\ LET bot == nextClient + 1 IN
               /\ nextClient' = bot
               /\ heap' = [heap EXCEPT ![bot] =
                               [buildBot(config) EXCEPT
                                   !.messageReceived = SeenBefore(u)]]
               /\ loggedIn' = [loggedIn EXCEPT ![bot] = TRUE]
               /\ bots' = [bots EXCEPT ![config.username] = bot]
               /\ last' = <<Log(u, "Starting bot..."), Call("buildBot", u),
                            Call("doLogin", u), MapSet(u), StatusUpdate>>
            /\ UNCHANGED <<configured, logVars, chatSent, pendingIO>>

\* ------------------------------------------------------------- startBot
startBot(u) ==
    LET config == configsArray[u] IN
    /\ ran' = <<"startBot", u, "">>
    /\ IF bots[config.username] # None
       THEN /\ last' = <<Log(u, "Bot is already running.")>>
            /\ UNCHANGED <<configured, logVars, bots, nextClient, heap, loggedIn, chatSent,
                           pendingIO>>
       ELSE /\ nextClient + 1 \in Clients
            /\ LET bot == nextClient + 1 IN
               /\ nextClient' = bot
               /\ heap' = [heap EXCEPT ![bot] = buildBot(config)]
               /\ loggedIn' = [loggedIn EXCEPT ![bot] = TRUE]
               /\ bots' = [bots EXCEPT ![config.username] = bot]
               /\ last' = <<Log(u, "Starting bot..."), Call("buildBot", u),
                            Call("doLogin", u), MapSet(u), StatusUpdate>>
            /\ UNCHANGED <<configured, logVars, chatSent, pendingIO>>

\* stopBot without try/finally: an exception of logOff escapes before the delete.
stopBot_NoFinally(u, logOffThrows) ==
    LET bot == bots[u] IN
    /\ ran' = <<"stopBot", u, bot # None /\ logOffThrows>>
    /\ IF bot = None
       THEN /\ last' = <<Log(u, "Bot is not running.")>>
            /\ UNCHANGED <<configured, logVars, bots, nextClient, heap, loggedIn, chatSent,
                           pendingIO>>
       ELSE IF logOffThrows
       THEN /\ loggedIn' = [loggedIn EXCEPT ![bot] = FALSE]
            /\ last' = <<Log(u, "Stopping bot..."), Call("logOff", u),
                         Throw("logOff")>>
            /\ UNCHANGED <<configured, logVars, bots, nextClient, heap, chatSent, pendingIO>>
       ELSE /\ bots' = [bots EXCEPT ![u] = None]
            /\ loggedIn' = [loggedIn EXCEPT ![bot] = FALSE]
            /\ last' = <<Log(u, "Stopping bot..."), Call("logOff", u),
                         MapDelete(u), StatusUpdate, Log(u, "Bot stopped.")>>
            /\ UNCHANGED <<configured, logVars, nextClient, heap, chatSent, pendingIO>>

\* stopBot without the guard of line 168: the call on the missing bot raises
\* inside the try, and the finally block runs.
stopBot_NoCheck(u, logOffThrows) ==
    LET bot == bots[u] IN
    /\ ran' = <<"stopBot", u, bot # None /\ logOffThrows>>
    /\ bots' = [bots EXCEPT ![u] = None]
    /\ loggedIn' = IF bot = None THEN loggedIn
                   ELSE [loggedIn EXCEPT ![bot] = FALSE]
    /\ last' = <<Log(u, "Stopping bot..."), Call("logOff", u)>>
               \o (IF logOffThrows \/ bot = None
                   THEN <<Log(u, "Error during logOff")>>
                   ELSE <<>>)
               \o <<MapDelete(u), StatusUpdate, Log(u, "Bot stopped.")>>
    /\ UNCHANGED <<configured, logVars, nextClient, heap, chatSent, pendingIO>>

\* -------------------------------------------------------------- stopBot
\* logOffThrows: whether bot.logOff() raises.
stopBot(u, logOffThrows) ==
    LET bot == bots[u] IN
    /\ ran' = <<"stopBot", u, bot # None /\ logOffThrows>>
    /\ IF bot = None
       THEN /\ last' = <<Log(u, "Bot is not running.")>>
            /\ UNCHANGED <<configured, logVars, bots, nextClient, heap, loggedIn, chatSent,
                           pendingIO>>
       ELSE /\ bots' = [bots EXCEPT ![u] = None]
            /\ loggedIn' = [loggedIn EXCEPT ![bot] = FALSE]
            /\ last' = <<Log(u, "Stopping bot..."), Call("logOff", u)>>
                       \o (IF logOffThrows
                           THEN <<Log(u, "Error during logOff")>>
                           ELSE <<>>)
                       \o <<MapDelete(u), StatusUpdate, Log(u, "Bot stopped.")>>
            /\ UNCHANGED <<configured, logVars, nextClient, heap, chatSent, pendingIO>>

\* ------------------------------------------------- the bot's own bookkeeping
\* _waitingForGuard is kept by the bot: raised when it asks for a Steam Guard
\* code, dropped when the login attempt ends (logged on, error, disconnect).
\* A bot that holds the account's shared secret computes the code itself and
\* never asks for one.
AsksForGuard(b) == b.sharedSecret = ""
guardRaised(b) == [b EXCEPT !.waitingForGuard = TRUE]
guardDropped(b) == [b EXCEPT !.waitingForGuard = FALSE]

\* ----------------------------------------------------- bot.on('loggedOn')
OnLoggedOn(bot) ==
    LET username == heap[bot].username
        absent == bots[username] = None
    IN
    /\ bot \in Built
    /\ ran' = <<"loggedOn", bot, "">>
    /\ bots' = IF absent THEN [bots EXCEPT ![username] = bot] ELSE bots
    /\ heap' = [heap EXCEPT ![bot] = guardDropped(@)]
    /\ last' = (IF absent THEN <<MapSet(username)>> ELSE <<>>)
               \o <<Log(username, "Logged in successfully. Playing games"),
                    StatusUpdate>>
    /\ UNCHANGED <<configured, logVars, nextClient, loggedIn, chatSent, pendingIO>>

\* -------------------------------------------------------- bot.on('error')
isLoggedInElsewhere(err) == Includes(err.message, "LoggedInElsewhere")
isInvalidPassword(err) == err.eresult = "InvalidPassword"

\* The unlink forgotten, and the unlink on every error.
DeletesLoginKey_Never(bot, err) == FALSE
DeletesLoginKey_AnyError(bot, err) == heap[bot].loginKeyPath

\* Whether the handler calls fs.unlink(bot.loginKeyPath).
DeletesLoginKey(bot, err) == isInvalidPassword(err) /\ heap[bot].loginKeyPath

\* The removal without the LoggedInElsewhere exception.
ErrorRemoves_Always(username, err) == bots[username] # None

\* Whether the handler deletes bots[config.username].
ErrorRemoves(username, err) ==
    bots[username] # None /\ ~isLoggedInElsewhere(err)

OnError(bot, err) ==
    LET username == heap[bot].username
        unlink == DeletesLoginKey(bot, err)
        removes == ErrorRemoves(username, err)
    IN
    /\ bot \in Built
    /\ ran' = <<"error", bot, err>>
    /\ unlink => BagCardinality(pendingIO) < MaxPendingIO
    /\ pendingIO' = IF unlink
                    THEN pendingIO (+) Promise("unlink", username)
                    ELSE pendingIO
    /\ bots' = IF removes THEN [bots EXCEPT ![username] = None] ELSE bots
    /\ heap' = [heap EXCEPT ![bot] = guardDropped(@)]
    /\ loggedIn' = IF isLoggedInElsewhere(err)
                   THEN loggedIn
                   ELSE [loggedIn EXCEPT ![bot] = FALSE]
    /\ last' = <<IF isLoggedInElsewhere(err)
                 THEN Log(username,
                          "Account logged in elsewhere, attempting to reconnect.")
                 ELSE Log(username, "Error: " \o ErrText(err))>>
               \o (IF unlink THEN <<Call("fs.unlink", username)>> ELSE <<>>)
               \o (IF removes
                   THEN <<MapDelete(username), StatusUpdate>>
                   ELSE <<>>)
    /\ UNCHANGED <<configured, logVars, nextClient, chatSent>>

\* ------------------------------------------------ bot.on('friendMessage')
\* The reply without the look at messageReceived.
Replies_IgnoresSeen(bot, steamID) == heap[bot].autoMessage # ""

\* Whether the handler calls bot.chatMessage(steamID, bot.autoMessage).
Replies(bot, steamID) ==
    steamID \notin heap[bot].messageReceived /\ heap[bot].autoMessage # ""

OnFriendMessage(bot, steamID) ==
    LET b == heap[bot]
        reply == Replies(bot, steamID)
    IN
    /\ bot \in Built
    /\ ran' = <<"friendMessage", bot, steamID>>
    /\ b.saveMessages => BagCardinality(pendingIO) < MaxPendingIO
    /\ reply => chatSent[bot][steamID] < MaxReplies
    /\ pendingIO' = IF b.saveMessages
                    THEN pendingIO (+) Promise("save", b.username)
                    ELSE pendingIO
    /\ chatSent' = IF reply
                   THEN [chatSent EXCEPT ![bot][steamID] = @ + 1]
                   ELSE chatSent
    /\ heap' = IF reply
               THEN [heap EXCEPT ![bot].messageReceived = @ \cup {steamID}]
               ELSE heap
    /\ last' = (IF b.receiveMessages
                THEN <<Log(b.username, "Message from " \o steamID)>>
                ELSE <<>>)
               \o (IF b.saveMessages
                   THEN <<Call("fs.mkdir", b.username)>>
                   ELSE <<>>)
               \o (IF reply THEN <<Call("chatMessage", steamID)>> ELSE <<>>)
    /\ UNCHANGED <<configured, logVars, bots, nextClient, loggedIn>>

\* ------------------------------------------ bot.on('steamGuardRequested')
OnSteamGuardRequested(bot) ==
    LET username == heap[bot].username IN
    /\ bot \in Built
    /\ ran' = <<"steamGuardRequested", bot, "">>
    /\ AsksForGuard(heap[bot])
    /\ heap' = [heap EXCEPT ![bot] = guardRaised(@)]
    /\ last' = <<Emit("steamGuardRequest", username),
                 Log(username, "Steam Guard code required.")>>
    /\ UNCHANGED <<configured, logVars, bots, nextClient, loggedIn, chatSent, pendingIO>>

\* ------------------------------------------------- bot.on('disconnected')
\* The handler without its io.emit('statusUpdate').
OnDisconnected_Silent(bot) ==
    LET username == heap[bot].username IN
    /\ bot \in Built
    /\ ran' = <<"disconnected", bot, "">>
    /\ bots' = [bots EXCEPT ![username] = None]
    /\ heap' = [heap EXCEPT ![bot] = guardDropped(@)]
    /\ loggedIn' = [loggedIn EXCEPT ![bot] = FALSE]
    /\ last' = <<Log(username, "Disconnected"), MapDelete(username)>>
    /\ UNCHANGED <<configured, logVars, nextClient, chatSent, pendingIO>>

\* The handler with `bots = {}` in place of `delete bots[config.username]`.
OnDisconnected_ClearsAll(bot) ==
    LET username == heap[bot].username IN
    /\ bot \in Built
    /\ ran' = <<"disconnected", bot, "">>
    /\ bots' = [u \in Users |-> None]
    /\ heap' = [heap EXCEPT ![bot] = guardDropped(@)]
    /\ loggedIn' = [loggedIn EXCEPT ![bot] = FALSE]
    /\ last' = <<Log(username, "Disconnected"), MapDelete(username),
                 StatusUpdate>>
    /\ UNCHANGED <<configured, logVars, nextClient, chatSent, pendingIO>>

OnDisconnected(bot) ==
    LET username == heap[bot].username IN
    /\ bot \in Built
    /\ ran' = <<"disconnected", bot, "">>
    /\ bots' = [bots EXCEPT ![username] = None]
    /\ heap' = [heap EXCEPT ![bot] = guardDropped(@)]
    /\ loggedIn' = [loggedIn EXCEPT ![bot] = FALSE]
    /\ last' = <<Log(username, "Disconnected"), MapDelete(username),
                 StatusUpdate>>
    /\ UNCHANGED <<configured, logVars, nextClient, chatSent, pendingIO>>

\* ------------------------------------------- app.post('/api/submit-guard')
\* The route without the look at _waitingForGuard.
GuardPending_AnyRunning(username) == bots[username] # None

\* The route looking at every bot built for the account, not at the entry.
GuardPending_AnyBot(username) ==
    \E c \in Built : heap[c].username = username /\ heap[c].waitingForGuard

\* Whether the route calls bot.submitSteamGuardCode(code).
GuardPending(username) ==
    bots[username] # None /\ heap[bots[username]].waitingForGuard

SubmitGuard(username) ==
    /\ ran' = <<"submit-guard", username, "">>
    /\ last' = IF GuardPending(username)
               THEN <<Call("submitSteamGuardCode", username),
                      Log(username, "Steam Guard code submitted."),
                      Http("200")>>
               ELSE <<Http("400")>>
    /\ UNCHANGED <<configured, logVars, bots, nextClient, heap, loggedIn, chatSent, pendingIO>>

\* ------------------------- the promises of fs.unlink and fs.mkdir/appendFile
\* ok: the promise fulfils; otherwise its .catch handler logs the failure.
SettleIO(kind, username, ok) ==
    /\ Pending(kind, username) > 0
    /\ ran' = <<"settle", username, <<kind, ok>>>>
    /\ pendingIO' = pendingIO (-) Promise(kind, username)
    /\ last' = IF ok THEN <<>>
               ELSE IF kind = "unlink"
                    THEN <<Log(username, "Could not delete old login key")>>
                    ELSE <<Log(username, "Error saving message")>>
    /\ UNCHANGED <<configured, logVars, bots, nextClient, heap, loggedIn, chatSent>>

\* Every handler of the program, with at most `cap` bots built.
Step(cap) ==
    \/ \E u \in configured : startBot(u) /\ nextClient' <= cap
    \/ \E u \in Users, t \in BOOLEAN : stopBot(u, t)
    \/ \E c \in Clients : OnLoggedOn(c)
    \/ \E c \in Clients, e \in Errors : OnError(c, e)
    \/ \E c \in Clients, p \in Peers : OnFriendMessage(c, p)
    \/ \E c \in Clients : OnSteamGuardRequested(c)
    \/ \E c \in Clients : OnDisconnected(c)
    \/ \E u \in Users : SubmitGuard(u)
    \/ \E k \in IOKinds, u \in Users, ok \in BOOLEAN : SettleIO(k, u, ok)

Next == Step(MaxClients)
Spec == Init /\ [][Next]_vars

NextWide == Step(MaxClients + 1)
SpecWide == Init /\ [][NextWide]_vars

\* ------------------------------------------- startBot, when the bot fails
\* botFactory.buildBot(config) raises: startBot has no try/catch, so the
\* exception leaves it after the first writeLog.
startBotBuildThrows(u) ==
    LET config == configsArray[u] IN
    /\ bots[config.username] = None
    /\ ran' = <<"startBot", u, "buildBot throws">>
    /\ last' = <<Log(u, "Starting bot..."), Call("buildBot", u),
                 Throw("buildBot")>>
    /\ UNCHANGED <<configured, logVars, bots, nextClient, heap, loggedIn,
                   chatSent, pendingIO>>

\* The events with which a bot can end a login inside the doLogin() call.
LoginEndings == {"disconnected", "error"}
ConnectError == CHOOSE e \in Errors : ~isLoggedInElsewhere(e) /\ ~isInvalidPassword(e)

\* bot.doLogin() delivers `ending` to the listeners before it returns: the
\* listener runs while the account has no entry, then startBot goes on with
\* the statements after doLogin().
startBotLoginEnds(u, ending) ==
    LET config == configsArray[u]
        bot == nextClient + 1
    IN
    /\ bots[config.username] = None
    /\ bot \in Clients
    /\ ran' = <<"startBot", u, ending>>
    /\ nextClient' = bot
    /\ heap' = [heap EXCEPT ![bot] = buildBot(config)]
    /\ loggedIn' = [loggedIn EXCEPT ![bot] = FALSE]
    /\ bots' = [bots EXCEPT ![config.username] = bot]
    /\ last' = <<Log(u, "Starting bot..."), Call("buildBot", u),
                 Call("doLogin", u)>>
               \o (IF ending = "disconnected"
                   THEN <<Log(u, "Disconnected"), MapDelete(u), StatusUpdate>>
                   ELSE <<Log(u, "Error: " \o ErrText(ConnectError))>>)
               \o <<MapSet(u), StatusUpdate>>
    /\ UNCHANGED <<configured, logVars, chatSent, pendingIO>>

\* ---------------------------- app.delete('/api/delete-account/:username')
\* The route up to `await saveConfig()`: 404 for an unknown account, else
\* stopBot when the account has an entry, and the config leaves configsArray.
deleteAccount(username, logOffThrows) ==
    LET bot == bots[username] IN
    /\ ran' = <<"delete-account", username, bot # None /\ logOffThrows>>
    /\ IF username \notin configured
       THEN /\ ~logOffThrows
            /\ last' = <<Http("404")>>
            /\ UNCHANGED <<configured, bots, loggedIn, pendingIO>>
       ELSE /\ BagCardinality(pendingIO) < MaxPendingIO
            /\ bot = None => ~logOffThrows
            /\ configured' = configured \ {username}
            /\ pendingIO' = pendingIO (+) Promise("saveConfig", username)
            /\ bots' = [bots EXCEPT ![username] = None]
            /\ loggedIn' = IF bot = None THEN loggedIn
                           ELSE [loggedIn EXCEPT ![bot] = FALSE]
            /\ last' = (IF bot = None THEN <<>>
                        ELSE <<Log(username, "Stopping bot..."),
                               Call("logOff", username)>>
                             \o (IF logOffThrows
                                 THEN <<Log(username, "Error during logOff")>>
                                 ELSE <<>>)
                             \o <<MapDelete(username), StatusUpdate,
                                   Log(username, "Bot stopped.")>>)
                       \o <<Call("configsArray.splice", username),
                             Call("saveConfig", username)>>
    /\ UNCHANGED <<logVars, nextClient, heap, chatSent>>

\* The rest of the route, once saveConfig() has settled (it never rejects).
deleteAccountSaved(username) ==
    /\ Pending("saveConfig", username) > 0
    /\ ran' = <<"delete-account saved", username, "">>
    /\ pendingIO' = pendingIO (-) Promise("saveConfig", username)
    /\ last' = <<Log(username, "Account deleted."), StatusUpdate, Http("200")>>
    /\ UNCHANGED <<configured, logVars, bots, nextClient, heap, loggedIn,
                   chatSent>>

\* The handlers of Step, the failing starts and the deletion of accounts.
NextAll ==
    \/ Step(MaxClients)
    \/ \E u \in configured : startBotBuildThrows(u)
    \/ \E u \in configured, e \in LoginEndings :
            startBotLoginEnds(u, e) /\ nextClient' <= MaxClients
    \/ \E u \in Users, t \in BOOLEAN : deleteAccount(u, t)
    \/ \E u \in Users : deleteAccountSaved(u)
SpecAll == Init /\ [][NextAll]_vars

\* ------------------------------------------------------------- writeLog
\* writeLog awaits fs.appendFile before it sends the line to the observers.
\* A log line is <<number of the writeLog call, account>>.  The calls start
\* their appends in call order; every append is a request of its own to the
\* thread pool, and the requests in flight complete in any order.
writeLog(username) ==
    LET logLine == <<logCount + 1, username>> IN
    /\ logCount < MaxLogLines
    /\ ran' = <<"writeLog", username, "">>
    /\ logCount' = logCount + 1
    /\ logPending' = logPending \cup {logLine}
    /\ last' = <<Call("fs.appendFile", username)>>
    /\ UNCHANGED <<logStream, configured, bots, nextClient, heap, loggedIn,
                   chatSent, pendingIO>>

\* The append of logLine settles: io.emit('log', logLine) when it fulfilled,
\* the console alone when it failed.
appendSettled(logLine, ok) ==
    /\ logLine \in logPending
    /\ ran' = <<"appendFile settled", logLine[2], ok>>
    /\ logPending' = logPending \ {logLine}
    /\ logStream' = IF ok THEN Append(logStream, logLine) ELSE logStream
    /\ last' = IF ok THEN <<Emit("log", logLine[2])>>
               ELSE <<Call("console.error", logLine[2])>>
    /\ UNCHANGED <<logCount, configured, bots, nextClient, heap, loggedIn,
                   chatSent, pendingIO>>

NextLog ==
    \/ \E u \in Users : writeLog(u)
    \/ \E n \in 1..MaxLogLines, u \in Users, ok \in BOOLEAN :
            appendSettled(<<n, u>>, ok)
SpecLog == Init /\ [][NextLog]_vars

\* ======================================================================
\* Properties of the supervisor
\* ======================================================================
\* The account a bot was built for (config.username in its handlers).
AccountOf(c) == heap[c].username
\* The bots of account u on which doLogin was invoked and that have not
\* terminated since (logOff, 'disconnected', or an error that is not
\* LoggedInElsewhere).
LiveBots(u) == {c \in Built : AccountOf(c) = u /\ loggedIn[c]}
\* The step is a run of the handler `name`, for Subject (a bot for the bot
\* events, an account otherwise) with Input.
Ran(name) == ran'[1] = name
Subject == ran'[2]
Input == ran'[3]
\* The effects of a startBot that built a bot for u.
StartedEffects(u) ==
    <<Log(u, "Starting bot..."), Call("buildBot", u), Call("doLogin", u),
      MapSet(u), StatusUpdate>>
ElsewhereLog(u) ==
    Log(u, "Account logged in elsewhere, attempting to reconnect.")

\* C1: for every account at most one bot exists on which login was invoked
\* and which has not terminated since, so two startBot calls for one account
\* never both succeed while the first bot is alive.
C1_AtMostOneLiveBot == \A u \in Users : Cardinality(LiveBots(u)) <= 1

\* C2: a startBot(u) right after a startBot(u) that built a bot only logs
\* "already running": it builds no bot, invokes no login, and the map keeps
\* its one entry for u, the bot of the first call.
C2_SecondStartIsNoOp ==
    [][(/\ Ran("startBot")
        /\ ran = <<"startBot", Subject, "">>
        /\ last = StartedEffects(Subject)) =>
            LET u == Subject IN
            /\ last' = <<Log(u, "Bot is already running.")>>
            /\ nextClient' = nextClient
            /\ heap' = heap
            /\ loggedIn' = loggedIn
            /\ bots' = bots
            /\ bots'[u] = nextClient]_vars

C2_Witness ==
    \E u \in Users :
        /\ ran = <<"startBot", u, "">>
        /\ last = <<Log(u, "Bot is already running.")>>
        /\ bots[u] = nextClient
        /\ loggedIn[nextClient]

\* C3: an 'error' whose message contains LoggedInElsewhere leaves the entry
\* of the account as it is; after every other 'error' and after every
\* 'disconnected' the account has no entry.
C3_ElsewhereKeepsEntry ==
    [][/\ Ran("error") =>
            LET u == AccountOf(Subject) IN
            IF isLoggedInElsewhere(Input)
            THEN bots'[u] = bots[u]
            ELSE bots'[u] = None
       /\ Ran("disconnected") => bots'[AccountOf(Subject)] = None
      ]_vars

C3_Witness ==
    /\ ran[1] = "error"
    /\ isLoggedInElsewhere(ran[3])
    /\ bots[AccountOf(ran[2])] = ran[2]
    /\ last = <<ElsewhereLog(AccountOf(ran[2]))>>

\* C4 as claimed: every 'error' with eresult InvalidPassword calls fs.unlink
\* once and leaves the account without entry.
C4_EveryInvalidPasswordUnlinks ==
    [][(Ran("error") /\ isInvalidPassword(Input)) =>
            LET u == AccountOf(Subject) IN
            /\ Count(last', Call("fs.unlink", u)) = 1
            /\ bots'[u] = None]_vars

\* C4 as amended: an 'error' with eresult InvalidPassword calls fs.unlink
\* once when the bot has a loginKeyPath and not at all when it has none; in
\* both cases the account has no entry afterwards.  The promise of the unlink
\* settles later, and its rejection only writes a log line.
C4_InvalidPasswordUnlinksKeyPath ==
    [][/\ (Ran("error") /\ isInvalidPassword(Input)) =>
            LET u == AccountOf(Subject)
                n == IF heap[Subject].loginKeyPath THEN 1 ELSE 0
            IN /\ Count(last', Call("fs.unlink", u)) = n
               /\ CopiesIn(<<"unlink", u>>, pendingIO') = Pending("unlink", u) + n
               /\ bots'[u] = None
       /\ (Ran("settle") /\ Input[1] = "unlink") =>
            /\ bots' = bots
            /\ heap' = heap
            /\ last' = IF Input[2] THEN <<>>
                       ELSE <<Log(Subject, "Could not delete old login key")>>
      ]_vars

C4_Witness ==
    /\ ran[1] = "error"
    /\ isInvalidPassword(ran[3])
    /\ heap[ran[2]].loginKeyPath
    /\ Count(last, Call("fs.unlink", AccountOf(ran[2]))) = 1
    /\ Pending("unlink", AccountOf(ran[2])) = 1
    /\ bots[AccountOf(ran[2])] = None

\* C5: fs.unlink is called, and an unlink promise created, only by the
\* handler of an 'error' with eresult InvalidPassword, and only for the
\* account of the bot; the handler of an 'error' whose message contains
\* LoggedInElsewhere never does.
C5_UnlinkOnlyOnInvalidPassword ==
    [][LET unlinks == {i \in DOMAIN last' : last'[i][2] = "fs.unlink"}
           promised == {u \in Users :
                          CopiesIn(<<"unlink", u>>, pendingIO')
                              > Pending("unlink", u)}
       IN
       /\ (unlinks # {} \/ (pendingIO' # pendingIO /\ promised # {})) =>
            /\ Ran("error")
            /\ isInvalidPassword(Input)
            /\ \A i \in unlinks :
                 last'[i] = Call("fs.unlink", AccountOf(Subject))
            /\ promised \subseteq {AccountOf(Subject)}
       /\ (Ran("error") /\ isLoggedInElsewhere(Input)) =>
            /\ unlinks = {}
            /\ pendingIO' = pendingIO
      ]_vars

C5_Witness ==
    /\ ran[1] = "error"
    /\ isLoggedInElsewhere(ran[3])
    /\ heap[ran[2]].loginKeyPath
    /\ last = <<ElsewhereLog(AccountOf(ran[2]))>>
    /\ pendingIO = EmptyBag

\* C6: stopBot(u) with an entry for u leaves u without entry, also when
\* logOff raises: the exception is logged and does not leave stopBot, and one
\* statusUpdate is broadcast, after the delete.
C6_StopAlwaysRemoves ==
    [][(Ran("stopBot") /\ bots[Subject] # None) =>
            LET u == Subject IN
            /\ bots'[u] = None
            /\ Count(last', Call("logOff", u)) = 1
            /\ Input => Has(last', Log(u, "Error during logOff"))
            /\ CountKind(last', "throw") = 0
            /\ Count(last', StatusUpdate) = 1
            /\ Before(last', MapDelete(u), StatusUpdate)]_vars

C6_Witness ==
    \E u \in Users :
        /\ ran = <<"stopBot", u, TRUE>>
        /\ Has(last, Log(u, "Error during logOff"))
        /\ Has(last, StatusUpdate)
        /\ bots[u] = None

\* C7: stopBot(u) without an entry for u only logs "not running": no logOff,
\* no statusUpdate, no exception, and no variable changes.
C7_StopAbsentIsNoOp ==
    [][(Ran("stopBot") /\ bots[Subject] = None) =>
            /\ last' = <<Log(Subject, "Bot is not running.")>>
            /\ UNCHANGED <<bots, nextClient, heap, loggedIn, chatSent,
                           pendingIO>>]_vars

C7_Witness ==
    \E u \in Users :
        /\ ran = <<"stopBot", u, FALSE>>
        /\ last = <<Log(u, "Bot is not running.")>>
        /\ bots[u] = None

\* C8: a bot with an autoMessage never sends a peer more than one automated
\* reply, and once it has handled a message of the peer it has sent exactly
\* one: the reply goes out with the peer's first message.
C8_OneReplyPerPeer ==
    /\ [](\A c \in Clients, p \in Peers : chatSent[c][p] <= 1)
    /\ [][(Ran("friendMessage") /\ heap[Subject].autoMessage # "") =>
            LET c == Subject
                p == Input
            IN /\ chatSent'[c][p] = 1
               /\ Has(last', Call("chatMessage", p)) <=> chatSent[c][p] = 0
         ]_vars

C8_Witness ==
    /\ ran[1] = "friendMessage"
    /\ heap[ran[2]].autoMessage # ""
    /\ chatSent[ran[2]][ran[3]] = 1
    /\ ~Has(last, Call("chatMessage", ran[3]))

\* C9: a startBot that builds a bot gives it an empty messageReceived,
\* whatever the account's earlier bots have replied to, so the new bot
\* replies to the first message of a peer an earlier bot had replied to.
C9_RestartResetsSeenPeers ==
    /\ [](\A c \in Built, p \in Peers :
            p \in heap[c].messageReceived <=> chatSent[c][p] > 0)
    /\ [][(/\ Ran("startBot")
           /\ bots[Subject] = None
           /\ Input # "buildBot throws") =>
            /\ bots'[Subject] \notin Built
            /\ bots'[Subject] \in Built'
            /\ heap'[bots'[Subject]].messageReceived = {}
         ]_vars
    /\ [][(/\ Ran("friendMessage")
           /\ heap[Subject].autoMessage # ""
           /\ chatSent[Subject][Input] = 0
           /\ \E c \in Built :
                /\ c < Subject
                /\ AccountOf(c) = AccountOf(Subject)
                /\ chatSent[c][Input] = 1) =>
            /\ Count(last', Call("chatMessage", Input)) = 1
            /\ chatSent'[Subject][Input] = 1
         ]_vars

C9_Witness ==
    /\ ran[1] = "friendMessage"
    /\ bots[AccountOf(ran[2])] = ran[2]
    /\ chatSent[ran[2]][ran[3]] = 1
    /\ Has(last, Call("chatMessage", ran[3]))
    /\ \E c \in Built :
        /\ c < ran[2]
        /\ AccountOf(c) = AccountOf(ran[2])
        /\ chatSent[c][ran[3]] = 1

\* C10: the submit-guard route calls submitSteamGuardCode only when the
\* account has an entry whose bot waits for a code; otherwise it answers 400
\* and calls nothing.  In both cases the map and the bots stay as they are.
C10_SubmitGuardOnlyWhenPending ==
    [][Ran("submit-guard") =>
            LET u == Subject
                pending == bots[u] # None /\ heap[bots[u]].waitingForGuard
            IN /\ pending =>
                    /\ Count(last', Call("submitSteamGuardCode", u)) = 1
                    /\ Has(last', Http("200"))
               /\ ~pending => last' = <<Http("400")>>
               /\ bots' = bots
               /\ heap' = heap]_vars

C10_Witness ==
    \E u \in Users :
        /\ ran = <<"submit-guard", u, "">>
        /\ Has(last, Call("submitSteamGuardCode", u))
        /\ bots[u] # None
        /\ heap[bots[u]].waitingForGuard

\* C11: an account gets an entry only in a startBot that found none, and
\* the entry then holds the bot which that startBot has just built; no
\* handler of a bot event puts a bot into the map.
C11_OnlyStartInserts ==
    [][\A u \in Users :
        (bots[u] = None /\ bots'[u] # None) =>
            /\ Ran("startBot")
            /\ Subject = u
            /\ bots'[u] \notin Built
            /\ bots'[u] = nextClient']_vars

C13_BuildFailureIsLogged ==
    [][(Ran("startBot") /\ Input = "buildBot throws") =>
            /\ bots' = bots
            /\ \E i \in DOMAIN last' :
                /\ last'[i][1] = "writeLog"
                /\ last'[i] # Log(Subject, "Starting bot...")
            /\ ~Has(last', Throw("buildBot"))]_vars

\* C14: a startBot that builds a bot writes the entry before it calls
\* doLogin(), so an ending 'disconnected' or 'error' which the bot delivers
\* inside the doLogin() call finds the entry, and the account has no entry
\* when startBot returns.
C14_InsertBeforeLogin ==
    [][(Ran("startBot") /\ Has(last', Call("doLogin", Subject))) =>
            /\ Before(last', MapSet(Subject), Call("doLogin", Subject))
            /\ Input \in LoginEndings => bots'[Subject] = None]_vars

\* The route would accept a code for u: the account has an entry and its bot
\* waits for a Steam Guard code.
Accepts(u) == bots[u] # None /\ heap[bots[u]].waitingForGuard
\* The bot events that end a login attempt.
EndsAttempt == {"loggedOn", "error", "disconnected"}

StatusAfter(u) ==
    IF bots'[u] = None THEN "Stopped"
    ELSE IF Ran("startBot") /\ Subject = u /\ bots[u] = None THEN "Starting"
    ELSE IF Ran("loggedOn") /\ Subject = bots'[u] THEN "Active"
    ELSE IF Ran("steamGuardRequested") /\ Subject = bots'[u]
         THEN "AwaitingChallenge"
    ELSE IF Ran("error") /\ Subject = bots'[u] THEN "Reconnecting"
    ELSE "unchanged"

\* C16: the status of an account changes along the edges of the graph only;
\* in particular an account without entry (Stopped) gets an entry only as
\* Starting, by a startBot, and never as Active by an event of a bot.
C16_StatusFollowsGraph ==
    [][\A u \in Users :
        (bots[u] = None /\ bots'[u] # None) =>
            StatusAfter(u) = "Starting"]_vars

\* The events of a bot, and the account a step is about: the account of the
\* bot for a bot event, the account named in the call otherwise.
BotEvents ==
    {"loggedOn", "error", "friendMessage", "steamGuardRequested",
     "disconnected"}
StepAccount == IF ran'[1] \in BotEvents THEN AccountOf(Subject) ELSE Subject

\* C17: a handler that runs for one account leaves every other account as
\* it was: its entry in the map, and of every bot built for it the fields
\* (with _waitingForGuard and messageReceived), the login state and the
\* replies sent.
C17_AccountsIndependent ==
    [][\A u \in Users \ {StepAccount} :
        /\ bots'[u] = bots[u]
        /\ \A c \in Built :
            AccountOf(c) = u =>
                /\ heap'[c] = heap[c]
                /\ loggedIn'[c] = loggedIn[c]
                /\ chatSent'[c] = chatSent[c]]_vars

C17_Witness ==
    /\ ran[1] = "disconnected"
    /\ AccountOf(ran[2]) = "alice"
    /\ bots["alice"] = None
    /\ bots["bob"] # None
    /\ heap[bots["bob"]].waitingForGuard
    /\ loggedIn[bots["bob"]]

\* C18: a 'disconnected' or an 'error' of a bot removes the entry of its
\* account only when the entry holds that bot; an entry which holds a later
\* bot of the account stays.
C18_StaleEventKeepsNewerEntry ==
    [][(ran'[1] \in {"disconnected", "error"}) =>
            LET u == AccountOf(Subject) IN
            (bots[u] # None /\ bots[u] # Subject) => bots'[u] = bots[u]]_vars

\* C19: every account with an entry in the map has a config in
\* configsArray, so /api/accounts shows every running bot.
C19_RunningIsConfigured == \A u \in Users : bots[u] # None => u \in configured

\* C20: the log lines of one account reach the observers in the order of
\* their writeLog calls: in the stream a line of an account never comes
\* after a line of that account from a later call.
C20_LogStreamInCallOrder ==
    \A i, j \in DOMAIN logStream :
        (i < j /\ logStream[i][2] = logStream[j][2]) =>
            logStream[i][1] < logStream[j][1]

====
